---- MODULE Spec2Model ----
(***************************************************************************)
(* Model of the textrawl ingestion pipeline: the batch uploader            *)
(* (scripts/cli/upload.ts), its manifest (ManifestManager) and the store   *)
(* calls it makes (createDocument, generateEmbeddings, createChunks); the   *)
(* segmenter (chunkText), the embedding providers (generateEmbeddings) and *)
(* the desktop ConversionManager.                                          *)
(*                                                                         *)
(* Node runs one callback at a time: the code between two awaits is one    *)
(* atomic step.  An action of this model is therefore one event-loop turn: *)
(* the settling of one awaited call together with every continuation that  *)
(* runs before the next I/O event (the rest of uploadFile, the rest of the *)
(* pool callback, and p-limit starting the next queued task).              *)
(***************************************************************************)
EXTENDS Integers, FiniteSets, Sequences, TLC

\* ---- bounds ----
NumFiles == 3
NumHashes == 2
MaxChunks == 1
MaxConcurrency == 2
MaxRuns == 2

Files == 1..NumFiles
\* the digests the converters write as source_hash ('sha256:<hex>')
Hashes == 1..NumHashes
\* a key that names a data property every object inherits ('constructor',
\* 'toString', 'hasOwnProperty', ...)
InheritedName == NumHashes + 1
\* the key '__proto__': inherited too, but an accessor, so that assigning to it
\* replaces the prototype of the object and stores no property
ProtoName == NumHashes + 2
\* the strings the methods of ManifestManager can be called with; the files of an
\* upload carry digests only
SourceHashes == Hashes \cup {InheritedName, ProtoName}
\* frontmatter.source_hash is undefined
NoHash == 0
NoEntry == [sourceHash |-> NoHash]
NoError == "none"
NoDoc == 0

VARIABLES
    hashOf,        \* frontmatter.source_hash of each markdown file
    nChunks,       \* chunkText(bodyContent).length of each markdown file
    run,           \* number of uploadDocuments invocations started
    phase,         \* "idle" | "pool" | "finished"
    options,       \* UploadOptions of the current invocation
    disk,          \* entries of .manifest.json on disk
    manifest,      \* ManifestManager: [entries, dirty]
    documents,     \* rows of the documents table
    chunks,        \* rows of the chunks table
    toUpload,      \* files handed to the pool
    skippedCount,  \* files.length - toUpload.length
    pc,            \* position of each file's pool task
    document,      \* document.id held by each uploadFile call
    error,         \* result.error of each uploadFile call
    successCount, errorCount, totalChunks,
    faulted,       \* history: files for which a store/provider call was made to fail
    loaded,        \* history: manifest entries as loaded at the start of the run
    prevRun,       \* history: pc and options at the end of the previous invocation
    provider,      \* config.EMBEDDING_PROVIDER
    conversionManager,  \* the ConversionManager objects and their pool tasks
    chunking,      \* one chunkText call: its arguments and what it returned
    embedding,     \* one generateEmbedding(s) call: arguments, requests, result
    searching,     \* one search_knowledge call over a store of segments
    updating,      \* the documents table under updateDocument calls
    uploadManager, \* the desktop UploadManager objects, one for each window built
    mainWindow     \* the desktop BrowserWindow and the variables of index.ts

vars == <<hashOf, nChunks, run, phase, options, disk, manifest, documents, chunks,
          toUpload, skippedCount, pc, document, error, successCount, errorCount,
          totalChunks, faulted, loaded, prevRun,
          provider, conversionManager, chunking, embedding,
          searching, updating, uploadManager, mainWindow>>

\* what no action of the uploader changes
inputs == <<hashOf, nChunks, provider, conversionManager, chunking, embedding,
            searching, updating, uploadManager, mainWindow>>

\* the uploader's own state
uploadVars == <<hashOf, nChunks, run, phase, options, disk, manifest, documents, chunks,
                toUpload, skippedCount, pc, document, error, successCount, errorCount,
                totalChunks, faulted, loaded, prevRun, provider>>

Min(S) == CHOOSE x \in S : \A y \in S : x <= y
Max(S) == CHOOSE x \in S : \A y \in S : x >= y

\* ---- ManifestManager ----
createEmpty == [h \in SourceHashes |-> NoEntry]

\* `sourceHash in this.manifest.entries`: true for an own entry and for a name the
\* entries object inherits.  entries holds the own properties; the prototype is
\* Object.prototype or, after an assignment to '__proto__', the entry assigned,
\* whose own prototype is Object.prototype: the inherited names among the
\* source hashes followed here are the same in both cases
isUploaded(entries, sourceHash) ==
    /\ sourceHash \in DOMAIN entries
    /\ entries[sourceHash] # NoEntry \/ sourceHash \in {InheritedName, ProtoName}

\* progress.ts 309-312: `entries[entry.sourceHash] = entry` stores an own property,
\* except for '__proto__', where the inherited setter runs instead
recordUpload(m, entry) ==
    [entries |-> IF entry.sourceHash = ProtoName
                 THEN m.entries
                 ELSE [m.entries EXCEPT ![entry.sourceHash] = entry],
     dirty |-> TRUE]

\* progress.ts 317-322: delete removes an own property only; the test is the one
\* of isUploaded, so an inherited name marks the manifest dirty with no change
removeEntry(m, sourceHash) ==
    IF isUploaded(m.entries, sourceHash)
    THEN [entries |-> [m.entries EXCEPT ![sourceHash] = NoEntry], dirty |-> TRUE]
    ELSE m

\* progress.ts 350-353
clear(m) == [entries |-> createEmpty, dirty |-> TRUE]

\* variant: the manifest is never written
save_neverWrites(m, d) == d

save(m, d) == IF m.dirty THEN m.entries ELSE d

\* ---- the store ----
\* the id the documents table assigns: fresh for every insert
NewDocumentId(r, f) == (r - 1) * NumFiles + f

createDocument(docs, id, f, r) ==
    docs \cup {[id |-> id, source_hash |-> hashOf[f], source_file |-> f, created_at |-> r]}

\* variant: the batch insert loses its last row
createChunks_partial(rows, id, n) ==
    rows \cup {[document_id |-> id, chunk_index |-> i] : i \in 0..(n - 2)}

createChunks(rows, id, n) ==
    rows \cup {[document_id |-> id, chunk_index |-> i] : i \in 0..(n - 1)}

\* embeddings.ts 8, 11 and the chunks table (schema: embedding vector(1536))
OPENAI_DIMENSIONS == 1536
OLLAMA_DIMENSIONS == 1024
EmbeddingColumnWidth == 1536
Providers == {"openai", "ollama"}

getEmbeddingDimensions(p) == IF p = "ollama" THEN OLLAMA_DIMENSIONS ELSE OPENAI_DIMENSIONS

\* the insert into chunks is accepted only for vectors of the column's width
InsertAccepted(p) == getEmbeddingDimensions(p) = EmbeddingColumnWidth

ChunksOf(id) == {c \in chunks : c.document_id = id}
DocumentsOfHash(h) == {d \in documents : d.source_hash = h}
DocumentsOfFile(f) == {d \in documents : d.source_file = f}

\* ---- the pool ----
InFlightPc == {"createDocument", "generateEmbeddings", "createChunks", "hung"}
FinalPc == {"skipped", "uploaded", "dryrun", "failed"}

Queue(p) == {f \in Files : p[f] = "queued"}
Active(p) == {f \in Files : p[f] \in InFlightPc}

\* variant: a file without source_hash fails without being counted
StartTask_uncounted(st, f, opts) ==
    IF opts.dryRun
    THEN [st EXCEPT !.pc[f] = "dryrun", !.successCount = @ + 1]
    ELSE IF hashOf[f] = NoHash
    THEN [st EXCEPT !.pc[f] = "failed",
                    !.error[f] = "Missing source_hash in front matter"]
    ELSE [st EXCEPT !.pc[f] = "createDocument"]

\* uploadFile up to its first await, inside the pool callback (upload.ts 197-207, 42-59)
StartTask(st, f, opts) ==
    IF opts.dryRun
    THEN [st EXCEPT !.pc[f] = "dryrun", !.successCount = @ + 1]
    ELSE IF hashOf[f] = NoHash
    THEN [st EXCEPT !.pc[f] = "failed", !.errorCount = @ + 1,
                    !.error[f] = "Missing source_hash in front matter"]
    ELSE [st EXCEPT !.pc[f] = "createDocument"]

\* variant: no limit, every queued task is started
RECURSIVE Dequeue_unbounded(_, _)
Dequeue_unbounded(st, opts) ==
    IF Queue(st.pc) # {}
    THEN Dequeue_unbounded(StartTask(st, Min(Queue(st.pc)), opts), opts)
    ELSE st

\* pLimit(options.concurrency): start queued tasks, oldest first, while a slot is free
RECURSIVE Dequeue(_, _)
Dequeue(st, opts) ==
    IF Cardinality(Active(st.pc)) < opts.concurrency /\ Queue(st.pc) # {}
    THEN Dequeue(StartTask(st, Min(Queue(st.pc)), opts), opts)
    ELSE st

PoolState ==
    [pc |-> pc, error |-> error, successCount |-> successCount,
     errorCount |-> errorCount, totalChunks |-> totalChunks, manifest |-> manifest]

\* upload.ts 209-231: result.success
TaskSucceeded(st, f, id, n) ==
    [st EXCEPT !.pc[f] = "uploaded",
               !.successCount = @ + 1,
               !.totalChunks = @ + n,
               !.manifest = recordUpload(@, [sourceHash |-> hashOf[f],
                                             documentId |-> id,
                                             uploadedAt |-> run,
                                             markdownPath |-> f,
                                             chunksCreated |-> n])]

\* variant: uploadFile has no catch, the rejection ends every unfinished task
TaskFailed_abortsBatch(st, f, msg) ==
    [st EXCEPT !.pc = [g \in Files |-> IF g = f \/ st.pc[g] \notin FinalPc
                                       THEN "failed" ELSE st.pc[g]],
               !.errorCount = @ + 1, !.error[f] = msg]

\* upload.ts 107-112, 232-235: the catch of uploadFile, then the else branch
TaskFailed(st, f, msg) ==
    [st EXCEPT !.pc[f] = "failed", !.errorCount = @ + 1, !.error[f] = msg]

SetPool(st) ==
    /\ pc' = st.pc
    /\ error' = st.error
    /\ successCount' = st.successCount
    /\ errorCount' = st.errorCount
    /\ totalChunks' = st.totalChunks
    /\ manifest' = st.manifest

\* the other components at rest
ChunkerIdle ==
    chunking = [pc |-> "idle"]
EmbedderIdle ==
    embedding = [pc |-> "idle"]
SearchIdle ==
    searching = [pc |-> "idle"]
UpdaterIdle ==
    updating = [pc |-> "idle"]
DesktopIdle ==
    /\ conversionManager = [pc |-> "idle"]
    /\ uploadManager = [pc |-> "idle"]
    /\ mainWindow = [pc |-> "idle"]

\* nothing uploaded yet: empty store, no manifest file
Fresh ==
    /\ run = 0
    /\ phase = "idle"
    /\ options = [force |-> FALSE, dryRun |-> FALSE, concurrency |-> 1]
    /\ disk = createEmpty
    /\ manifest = [entries |-> createEmpty, dirty |-> FALSE]
    /\ documents = {}
    /\ chunks = {}
    /\ toUpload = {}
    /\ skippedCount = 0
    /\ pc = [f \in Files |-> "none"]
    /\ document = [f \in Files |-> NoDoc]
    /\ error = [f \in Files |-> NoError]
    /\ successCount = 0
    /\ errorCount = 0
    /\ totalChunks = 0
    /\ faulted = {}
    /\ loaded = createEmpty
    /\ prevRun = [pc |-> [f \in Files |-> "none"], options |-> options]

\* the uploader at rest, for the specifications of the other components
UploadAtRest ==
    /\ hashOf = [f \in Files |-> NoHash]
    /\ nChunks = [f \in Files |-> 0]
    /\ Fresh

Init ==
    /\ hashOf \in [Files -> Hashes \cup {NoHash}]
    /\ nChunks \in [Files -> 0..MaxChunks]
    /\ provider = "openai"
    /\ Fresh
    /\ ChunkerIdle /\ EmbedderIdle
    /\ SearchIdle /\ UpdaterIdle /\ DesktopIdle

\* uploadDocuments up to `await Promise.all` (upload.ts 141-242)
BeginRun(force, dryRun, concurrency) ==
    /\ phase \in {"idle", "finished"}
    /\ run < MaxRuns
    /\ LET opts == [force |-> force, dryRun |-> dryRun, concurrency |-> concurrency]
           m == [entries |-> disk, dirty |-> FALSE]
           handed == IF force THEN Files
                     ELSE {f \in Files : ~isUploaded(m.entries, hashOf[f])}
           st0 == [pc |-> [f \in Files |-> IF f \in handed THEN "queued" ELSE "skipped"],
                   error |-> [f \in Files |-> NoError],
                   successCount |-> 0, errorCount |-> 0, totalChunks |-> 0,
                   manifest |-> m]
       IN /\ run' = run + 1
          /\ options' = opts
          /\ loaded' = disk
          /\ prevRun' = [pc |-> pc, options |-> options]
          /\ toUpload' = handed
          /\ skippedCount' = Cardinality(Files) - Cardinality(handed)
          /\ document' = [f \in Files |-> NoDoc]
          /\ faulted' = {f \in handed : ~dryRun /\ hashOf[f] = NoHash}
          /\ IF handed = {}
             THEN /\ phase' = "finished"
                  /\ SetPool(st0)
             ELSE /\ phase' = "pool"
                  /\ SetPool(Dequeue(st0, opts))
    /\ UNCHANGED <<inputs, disk, documents, chunks>>

\* `await createDocument(...)` settles (upload.ts 59-83)
CreateDocumentReturn(f, ok) ==
    /\ phase = "pool"
    /\ pc[f] = "createDocument"
    /\ LET id == NewDocumentId(run, f)
       IN IF ok
          THEN /\ documents' = createDocument(documents, id, f, run)
               /\ document' = [document EXCEPT ![f] = id]
               /\ faulted' = faulted
               /\ IF nChunks[f] = 0
                  THEN SetPool(Dequeue(TaskSucceeded(PoolState, f, id, 0), options))
                  ELSE SetPool([PoolState EXCEPT !.pc[f] = "generateEmbeddings"])
          ELSE /\ faulted' = faulted \cup {f}
               /\ SetPool(Dequeue(TaskFailed(PoolState, f, "Failed to create document"), options))
               /\ UNCHANGED <<documents, document>>
    /\ UNCHANGED <<inputs, run, phase, options, disk, chunks, toUpload, skippedCount,
                   loaded, prevRun>>

\* `await generateEmbeddings(chunkContents)` settles (upload.ts 87-100)
GenerateEmbeddingsReturn(f, ok) ==
    /\ phase = "pool"
    /\ pc[f] = "generateEmbeddings"
    /\ IF ok
       THEN /\ SetPool([PoolState EXCEPT !.pc[f] = "createChunks"])
            /\ faulted' = faulted
       ELSE /\ SetPool(Dequeue(TaskFailed(PoolState, f, "embedding generation failed"), options))
            /\ faulted' = faulted \cup {f}
    /\ UNCHANGED <<inputs, run, phase, options, disk, documents, chunks, toUpload,
                   skippedCount, document, loaded, prevRun>>

\* the provider never answers: fetch / client.embeddings.create is awaited with no
\* timeout and no abort signal (embeddings.ts 115-122, 187-191)
GenerateEmbeddingsNeverReturns(f) ==
    /\ phase = "pool"
    /\ pc[f] = "generateEmbeddings"
    /\ pc' = [pc EXCEPT ![f] = "hung"]
    /\ UNCHANGED <<inputs, run, phase, options, disk, manifest, documents, chunks,
                   toUpload, skippedCount, document, error, successCount, errorCount,
                   totalChunks, faulted, loaded, prevRun>>

\* `await createChunks(chunkInputs)` settles (upload.ts 100-106)
CreateChunksReturn(f, ok) ==
    /\ phase = "pool"
    /\ pc[f] = "createChunks"
    /\ ok => InsertAccepted(provider)
    /\ IF ok
       THEN /\ chunks' = createChunks(chunks, document[f], nChunks[f])
            /\ SetPool(Dequeue(TaskSucceeded(PoolState, f, document[f], nChunks[f]), options))
            /\ faulted' = faulted
       ELSE /\ chunks' = chunks
            /\ SetPool(Dequeue(TaskFailed(PoolState, f, "Failed to create chunks"), options))
            /\ faulted' = faulted \cup {f}
    /\ UNCHANGED <<inputs, run, phase, options, disk, documents, toUpload,
                   skippedCount, document, loaded, prevRun>>

\* `await Promise.all(uploadPromises)` resolves: save and summary (upload.ts 242-259)
FinishRun ==
    /\ phase = "pool"
    /\ \A f \in Files : pc[f] \in FinalPc
    /\ disk' = save(manifest, disk)
    /\ manifest' = [manifest EXCEPT !.dirty = FALSE]
    /\ phase' = "finished"
    /\ UNCHANGED <<inputs, run, options, documents, chunks, toUpload, skippedCount,
                   pc, document, error, successCount, errorCount, totalChunks,
                   faulted, loaded, prevRun>>

Next ==
    \/ \E force \in BOOLEAN, dryRun \in BOOLEAN, concurrency \in 1..MaxConcurrency :
          BeginRun(force, dryRun, concurrency)
    \/ \E f \in Files, ok \in BOOLEAN : CreateDocumentReturn(f, ok)
    \/ \E f \in Files, ok \in BOOLEAN : GenerateEmbeddingsReturn(f, ok)
    \/ \E f \in Files : GenerateEmbeddingsNeverReturns(f)
    \/ \E f \in Files, ok \in BOOLEAN : CreateChunksReturn(f, ok)
    \/ FinishRun

Spec == Init /\ [][Next]_vars

\* ---- fairness: every enabled event-loop turn eventually runs ----
\* for liveness the artifacts are fixed: the files cycle through the hashes and
\* each has MaxChunks segments
LiveInit ==
    /\ Init
    /\ hashOf = [f \in Files |-> ((f - 1) % NumHashes) + 1]
    /\ nChunks = [f \in Files |-> MaxChunks]

FairSpec == LiveInit /\ [][Next]_vars /\ WF_vars(Next)

\* ---- either provider against the schema's embedding column ----
DimInit ==
    /\ hashOf = [f \in Files |-> ((f - 1) % NumHashes) + 1]
    /\ nChunks = [f \in Files |-> MaxChunks]
    /\ provider \in Providers
    /\ Fresh
    /\ ChunkerIdle /\ EmbedderIdle
    /\ SearchIdle /\ UpdaterIdle /\ DesktopIdle

DimSpec == DimInit /\ [][Next]_vars

\* ---- ManifestManager as an object: its constructor and every public method ----
\* ---- that changes it (progress.ts 238-241, 282-290, 309-322, 350-353)       ----
ManifestNext ==
    /\ \/ manifest' = [entries |-> disk, dirty |-> FALSE] /\ disk' = disk
       \/ \E h \in SourceHashes, id \in 1..NumFiles, n \in 0..MaxChunks :
             /\ manifest' = recordUpload(manifest,
                                [sourceHash |-> h, documentId |-> id, uploadedAt |-> 1,
                                 markdownPath |-> 1, chunksCreated |-> n])
             /\ disk' = disk
       \/ \E h \in SourceHashes :
             manifest' = removeEntry(manifest, h) /\ disk' = disk
       \/ manifest' = clear(manifest) /\ disk' = disk
       \/ disk' = save(manifest, disk) /\ manifest' = [manifest EXCEPT !.dirty = FALSE]
    /\ UNCHANGED <<inputs, run, phase, options, documents, chunks, toUpload,
                   skippedCount, pc, document, error, successCount, errorCount,
                   totalChunks, faulted, loaded, prevRun>>

ManifestSpec ==
    /\ UploadAtRest /\ ChunkerIdle /\ EmbedderIdle
    /\ SearchIdle /\ UpdaterIdle /\ DesktopIdle
    /\ provider = "openai"
    /\ [][ManifestNext]_vars

\* ---- the segmenter: chunkText (src/services/chunker.ts) ----
\* a text is a sequence of characters; the texts tried are built from a letter and
\* a newline, written with LF or with CRLF line endings
MaxTextLen == 9
MaxTokens == 2
MaxOverlap == 2
CHARS_PER_TOKEN == 4
Letter == "a"
LF == "\n"
CR == "\r"
DefaultSeparator == <<LF, LF>>
Separators == {DefaultSeparator, <<Letter>>}
BaseTexts == UNION {[1..n -> {Letter, LF}] : n \in 0..MaxTextLen}

\* a text as a Windows editor writes it: every LF becomes CR LF
RECURSIVE WithCRLF(_)
WithCRLF(t) ==
    IF t = <<>> THEN <<>>
    ELSE (IF Head(t) = LF THEN <<CR, LF>> ELSE <<Head(t)>>) \o WithCRLF(Tail(t))

\* text.replace(/\r\n/g, '\n')
RECURSIVE ReplaceCRLF(_)
ReplaceCRLF(t) ==
    IF Len(t) < 2 THEN t
    ELSE IF t[1] = CR /\ t[2] = LF THEN <<LF>> \o ReplaceCRLF(SubSeq(t, 3, Len(t)))
    ELSE <<t[1]>> \o ReplaceCRLF(Tail(t))

\* the characters String.prototype.trim removes (WhiteSpace and LineTerminator of
\* ECMAScript) that a string can denote here: space, TAB, VT, LF, CR, FF, U+00A0,
\* U+1680 and U+FEFF; U+2000-200A, U+2028, U+2029, U+202F, U+205F and U+3000 are
\* white space too and have no denotation
IsSpace(c) == c \in {" ", LF, CR, "\t", "", "\f", " ", " ", "﻿"}

\* String.prototype.trim
RECURSIVE TrimStart(_)
TrimStart(t) == IF t # <<>> /\ IsSpace(Head(t)) THEN TrimStart(Tail(t)) ELSE t
RECURSIVE TrimEnd(_)
TrimEnd(t) ==
    IF t # <<>> /\ IsSpace(t[Len(t)]) THEN TrimEnd(SubSeq(t, 1, Len(t) - 1)) ELSE t
Trim(t) == TrimEnd(TrimStart(t))

Normalize(text) == Trim(ReplaceCRLF(text))

\* String.prototype.indexOf, 1-based, 0 when absent
IndexOf(t, sep, from) ==
    LET hits == {i \in from..(Len(t) - Len(sep) + 1) : SubSeq(t, i, i + Len(sep) - 1) = sep}
    IN IF hits = {} THEN 0 ELSE Min(hits)

\* String.prototype.split
RECURSIVE Split(_, _)
Split(t, sep) ==
    IF sep = <<>> THEN [i \in 1..Len(t) |-> <<t[i]>>]
    ELSE LET i == IndexOf(t, sep, 1)
         IN IF i = 0 THEN <<t>>
            ELSE <<SubSeq(t, 1, i - 1)>> \o Split(SubSeq(t, i + Len(sep), Len(t)), sep)

\* Math.ceil(length / CHARS_PER_TOKEN)
TokenCount(content) == (Len(content) + CHARS_PER_TOKEN - 1) \div CHARS_PER_TOKEN

\* variant: chunk numbers start at 1
PushChunk_oneBased(list, currentChunk, start, end) ==
    LET trimmedContent == Trim(currentChunk)
    IN IF Len(trimmedContent) > 0
       THEN Append(list, [content |-> trimmedContent, index |-> Len(list) + 1,
                          startOffset |-> start, endOffset |-> end,
                          tokenCount |-> TokenCount(trimmedContent)])
       ELSE list

\* chunker.ts 88-97, 111-120: push the candidate unless it is whitespace only
PushChunk(list, currentChunk, start, end) ==
    LET trimmedContent == Trim(currentChunk)
    IN IF Len(trimmedContent) > 0
       THEN Append(list, [content |-> trimmedContent, index |-> Len(list),
                          startOffset |-> start, endOffset |-> end,
                          tokenCount |-> TokenCount(trimmedContent)])
       ELSE list

\* variant: the next chunk's start offset ignores the overlap it is seeded with
CloseChunk_startAfterOverlap(st, overlapChars) ==
    LET len == Len(st.currentChunk)
        overlapStart == IF len - overlapChars > 0 THEN len - overlapChars ELSE 0
    IN [chunks |-> PushChunk(st.chunks, st.currentChunk, st.chunkStartOffset,
                             st.currentOffset),
        currentChunk |-> SubSeq(st.currentChunk, overlapStart + 1, len),
        chunkStartOffset |-> st.currentOffset,
        currentOffset |-> st.currentOffset]

\* chunker.ts 83-104: close the current chunk and seed the next one with its tail
CloseChunk(st, overlapChars) ==
    LET len == Len(st.currentChunk)
        overlapStart == IF len - overlapChars > 0 THEN len - overlapChars ELSE 0
        overlapText == SubSeq(st.currentChunk, overlapStart + 1, len)
    IN [chunks |-> PushChunk(st.chunks, st.currentChunk, st.chunkStartOffset,
                             st.currentOffset),
        currentChunk |-> overlapText,
        chunkStartOffset |-> st.currentOffset - Len(overlapText),
        currentOffset |-> st.currentOffset]

\* variant: the current chunk is never closed
AddParagraph_neverCloses(st, paragraphWithSep, maxChars, overlapChars) ==
    [st EXCEPT !.currentChunk = @ \o paragraphWithSep,
               !.currentOffset = @ + Len(paragraphWithSep)]

\* chunker.ts 77-108: the loop body for paragraphs[i]
AddParagraph(st, paragraphWithSep, maxChars, overlapChars) ==
    LET s1 == IF Len(st.currentChunk) > 0
                 /\ Len(st.currentChunk) + Len(paragraphWithSep) > maxChars
              THEN CloseChunk(st, overlapChars)
              ELSE st
    IN [s1 EXCEPT !.currentChunk = @ \o paragraphWithSep,
                  !.currentOffset = @ + Len(paragraphWithSep)]

RECURSIVE ChunkLoop(_, _, _, _, _, _)
ChunkLoop(st, paragraphs, i, separator, maxChars, overlapChars) ==
    IF i > Len(paragraphs) THEN st
    ELSE LET paragraphWithSep == IF i = Len(paragraphs) THEN paragraphs[i]
                                 ELSE paragraphs[i] \o separator
         IN ChunkLoop(AddParagraph(st, paragraphWithSep, maxChars, overlapChars),
                      paragraphs, i + 1, separator, maxChars, overlapChars)

\* chunker.ts 40-131
chunkText(text, maxChunkSize, overlap, separator) ==
    LET maxChars == maxChunkSize * CHARS_PER_TOKEN
        overlapChars == overlap * CHARS_PER_TOKEN
        normalizedText == Normalize(text)
    IN IF Len(normalizedText) = 0 THEN <<>>
       ELSE IF Len(normalizedText) <= maxChars
       THEN <<[content |-> normalizedText, index |-> 0, startOffset |-> 0,
               endOffset |-> Len(normalizedText),
               tokenCount |-> TokenCount(normalizedText)]>>
       ELSE LET st == ChunkLoop([chunks |-> <<>>, currentChunk |-> <<>>,
                                 chunkStartOffset |-> 0, currentOffset |-> 0],
                                Split(normalizedText, separator), 1, separator,
                                maxChars, overlapChars)
            IN PushChunk(st.chunks, st.currentChunk, st.chunkStartOffset,
                         st.currentOffset)

ChunkInit ==
    /\ UploadAtRest /\ EmbedderIdle
    /\ SearchIdle /\ UpdaterIdle /\ DesktopIdle
    /\ provider = "openai"
    /\ \E base \in BaseTexts, crlf \in BOOLEAN, maxChunkSize \in (0 - 1)..MaxTokens,
          overlap \in 0..MaxOverlap, separator \in Separators :
          chunking = [pc |-> "called",
                      text |-> IF crlf THEN WithCRLF(base) ELSE base,
                      maxChunkSize |-> maxChunkSize, overlap |-> overlap,
                      separator |-> separator,
                      error |-> "none", result |-> <<>>]

\* chunkText(text, options) returns; it has no throw statement
ChunkTextReturn ==
    /\ chunking.pc = "called"
    /\ chunking' = [chunking EXCEPT
                       !.pc = "returned",
                       !.result = chunkText(chunking.text, chunking.maxChunkSize,
                                            chunking.overlap, chunking.separator)]
    /\ UNCHANGED <<uploadVars, conversionManager, embedding, searching, updating,
                   uploadManager, mainWindow>>

ChunkNext == ChunkTextReturn

ChunkSpec == ChunkInit /\ [][ChunkNext]_vars

\* ---- helpers of the properties ----
DocumentIds == {d.id : d \in documents}
CreatedIn(r) == {d \in documents : d.created_at = r}
Uploaded == {f \in Files : pc[f] = "uploaded"}
Failed == {f \in Files : pc[f] = "failed"}

\* C1: a second run without force skips every artifact whose source hash is in the
\* manifest, and no other, and creates no Document or Segment for it; an artifact
\* uploaded by the first run ends with exactly one Document (over the two runs) and
\* a manifest entry.
C1_DedupAcrossRuns ==
    (run >= 2 /\ ~options.force) =>
        \A f \in Files :
            /\ (hashOf[f] # NoHash /\ loaded[hashOf[f]] # NoEntry) =>
                  /\ pc[f] = "skipped"
                  /\ \A d \in CreatedIn(run) : d.source_file # f
                  /\ ChunksOf(NewDocumentId(run, f)) = {}
            /\ pc[f] = "skipped" => (hashOf[f] # NoHash /\ loaded[hashOf[f]] # NoEntry)
            /\ prevRun.pc[f] = "uploaded" =>
                  /\ Cardinality({d \in DocumentsOfFile(f) : d.created_at >= run - 1}) = 1
                  /\ manifest.entries[hashOf[f]] # NoEntry
                  /\ manifest.entries[hashOf[f]].sourceHash = hashOf[f]

\* two runs without force: every file was uploaded by the first and skipped by
\* the second
C1_Witness ==
    /\ run = 2 /\ phase = "finished"
    /\ ~options.force /\ ~options.dryRun /\ ~prevRun.options.force
    /\ \A f \in Files : prevRun.pc[f] = "uploaded" /\ pc[f] = "skipped"
    /\ Cardinality(documents) = NumFiles

\* C2: without force, at most one Document is created per content hash in one batch.
C2_NoDoubleInsert ==
    ~options.force =>
        \A h \in SourceHashes :
            Cardinality({d \in CreatedIn(run) : d.source_hash = h}) <= 1

\* C3: when the run has ended, exactly the artifacts for which a step failed are
\* Failed, each with its error message, and every other artifact is Persisted or
\* Skipped.
C3_BatchResilience ==
    (phase = "finished" /\ ~options.dryRun) =>
        /\ \A f \in Files :
              /\ pc[f] \in FinalPc
              /\ (pc[f] = "failed") <=> (f \in faulted)
              /\ (pc[f] = "failed") => error[f] # NoError
              /\ (f \notin faulted) => pc[f] \in {"uploaded", "skipped"}
        /\ errorCount = Cardinality(faulted)

C3_Witness ==
    /\ phase = "finished" /\ ~options.dryRun
    /\ error[2] = "embedding generation failed"
    /\ pc[2] = "failed"
    /\ \A f \in Files \ {2} : pc[f] = "uploaded"

\* C4: the Document of an artifact is not in the store until the embedding of its
\* segment texts has returned successfully, and the manifest entry is recorded only
\* after the segments were written.
C4_StrictStepOrder ==
    \A f \in Files :
        /\ pc[f] \in {"generateEmbeddings", "hung"} =>
              NewDocumentId(run, f) \notin DocumentIds
        /\ (hashOf[f] # NoHash /\ manifest.entries[hashOf[f]] # NoEntry
            /\ manifest.entries[hashOf[f]].documentId = NewDocumentId(run, f)) =>
              Cardinality(ChunksOf(NewDocumentId(run, f))) = nChunks[f]

\* C5: the final manifest does not depend on the interleaving: for every hash the
\* entry describes the artifact it describes when the tasks complete in queue order
\* (concurrency 1), the last uploaded artifact carrying that hash.
C5_InterleavingIndependent ==
    (phase = "finished") =>
        \A h \in SourceHashes :
            LET up == {f \in Uploaded : hashOf[f] = h}
            IN up # {} =>
                  /\ manifest.entries[h] # NoEntry
                  /\ manifest.entries[h].markdownPath = Max(up)

\* C6: every manifest entry, in memory and on disk, refers to a Document that
\* exists in the store with all of its segments written, and was recorded for an
\* upload that did not fail.
EntryComplete(e, h) ==
    e # NoEntry =>
        /\ e.sourceHash = h
        /\ \E d \in documents : d.id = e.documentId /\ d.source_hash = h
        /\ Cardinality(ChunksOf(e.documentId)) = e.chunksCreated
        /\ e.uploadedAt = run =>
              /\ pc[e.markdownPath] = "uploaded"
              /\ e.markdownPath \notin faulted

C6_ManifestEntriesComplete ==
    \A h \in SourceHashes :
        EntryComplete(manifest.entries[h], h) /\ EntryComplete(disk[h], h)

C6_Witness ==
    /\ phase = "finished"
    /\ \E h \in Hashes : disk[h] # NoEntry /\ disk[h].chunksCreated = MaxChunks
                         /\ disk[h].uploadedAt = run
    /\ \E f \in Files : pc[f] = "failed" /\ error[f] = "Failed to create chunks"

\* C7: after a forced re-ingestion of an artifact whose hash was in the manifest,
\* the Document and segments of the earlier ingestion are gone, the store holds
\* exactly one Document for the hash and the manifest entry refers to it.
C7_ForceReplaces ==
    (phase = "finished" /\ options.force) =>
        \A f \in Uploaded :
            LET h == hashOf[f]
            IN loaded[h] # NoEntry =>
                  /\ loaded[h].documentId \notin DocumentIds
                  /\ ChunksOf(loaded[h].documentId) = {}
                  /\ Cardinality(DocumentsOfHash(h)) = 1
                  /\ manifest.entries[h].documentId \in DocumentIds

\* C8: when a run has ended every artifact found is counted exactly once:
\* succeeded + failed is the number handed to the pool, skipped is found minus
\* handed, and each count is the number of artifacts with that outcome.
C8_SummaryCounts ==
    (phase = "finished") =>
        /\ \A f \in Files : pc[f] \in FinalPc
        /\ successCount + errorCount = Cardinality(toUpload)
        /\ skippedCount = Cardinality(Files) - Cardinality(toUpload)
        /\ successCount = Cardinality({f \in Files : pc[f] \in {"uploaded", "dryrun"}})
        /\ errorCount = Cardinality(Failed)
        /\ skippedCount = Cardinality({f \in Files : pc[f] = "skipped"})
        /\ \A f \in Files :
              pc[f] = "skipped" => (hashOf[f] # NoHash /\ loaded[hashOf[f]] # NoEntry)

\* a finished run with an uploaded, a skipped and a failed file, one of them
\* failed for its missing source_hash
C8_Witness ==
    /\ phase = "finished"
    /\ successCount >= 1 /\ errorCount >= 1 /\ skippedCount >= 1
    /\ \E f \in Files : pc[f] = "failed" /\ hashOf[f] = NoHash

\* C9: an artifact whose embedding call never returns eventually becomes Failed
\* and the run ends.
C9_HungCallTimesOut ==
    \A f \in Files : (pc[f] = "hung") ~> (pc[f] = "failed" /\ phase = "finished")

\* C10: the number of artifacts started and not yet at a final outcome never
\* exceeds options.concurrency.
C10_PoolBound ==
    Cardinality(Active(pc)) <= options.concurrency

C10_Witness ==
    /\ phase = "pool"
    /\ options.concurrency = MaxConcurrency
    /\ Cardinality(Active(pc)) = MaxConcurrency
    /\ Queue(pc) # {}

\* C20: when the provider's vector dimension differs from the width of the
\* embedding column, an ingestion writes no Document and no Segment.
C20_MismatchWritesNothing ==
    (getEmbeddingDimensions(provider) # EmbeddingColumnWidth) =>
        (documents = {} /\ chunks = {})

\* ---- the desktop application: its window (desktop/src/main/index.ts 18-56) ----
MaxWindows == 2
NoWindow == 0

\* webContents.send of the managers built for window w: it throws 'Object has
\* been destroyed' once the window is destroyed
Alive(w) == mainWindow.open = w

\* ---- the desktop conversion batch: ConversionManager (part_002 249-364) ----
NumConvFiles == 4
MaxBatches == 2
ConvConcurrency == 3
ConvFiles == 1..NumConvFiles
NoSnapshot == [f \in ConvFiles |-> "none"]
\* file.converterType: 'processor', the name of a CLI converter, or undefined
NoConverter == "undefined"
ConverterTypes == {"processor", "cli", NoConverter}
Destroyed == "Object has been destroyed"

\* part_002 251-259: a ConversionManager as constructed
NewConversionManager ==
    [isRunning |-> FALSE, shouldCancel |-> FALSE,
     totalFiles |-> 0, completedFiles |-> 0, errorCount |-> 0,
     converterType |-> [f \in ConvFiles |-> NoConverter],
     task |-> [f \in ConvFiles |-> "none"],
     awaiting |-> FALSE, result |-> "none", atCancel |-> NoSnapshot]

ConvQueued(cm) == {f \in ConvFiles : cm.task[f] = "queued"}
\* a task holds its place in the pool until its function settles; "stuck" is a
\* CLI task whose 'exit' listener threw before resolvePromise
ConvInFlight(cm) == {f \in ConvFiles : cm.task[f] \in {"processing", "stuck"}}

\* variant: the task body does not look at shouldCancel
StartQueued_ignoresCancel(cm, f, alive) ==
    IF ~alive
    THEN [cm EXCEPT !.task[f] = "rejected"]
    ELSE IF cm.converterType[f] # NoConverter
    THEN [cm EXCEPT !.task[f] = "processing"]
    ELSE [cm EXCEPT !.task[f] = "skipped", !.completedFiles = @ + 1]

\* part_002 285-288 and 320-351: the task body up to its first await.  The
\* 'processing' message is sent before the try of convertFile, so a throwing send
\* rejects the task; a file without converterType is reported as skipped and the
\* task ends at once
StartQueued(cm, f, alive) ==
    IF cm.shouldCancel
    THEN [cm EXCEPT !.task[f] = "cancelled"]
    ELSE IF ~alive
    THEN [cm EXCEPT !.task[f] = "rejected"]
    ELSE IF cm.converterType[f] # NoConverter
    THEN [cm EXCEPT !.task[f] = "processing"]
    ELSE [cm EXCEPT !.task[f] = "skipped", !.completedFiles = @ + 1]

\* pLimit(3): queued tasks start in order while fewer than three are running
RECURSIVE ConvDequeue(_, _)
ConvDequeue(cm, alive) ==
    IF ConvQueued(cm) # {} /\ Cardinality(ConvInFlight(cm)) < ConvConcurrency
    THEN ConvDequeue(StartQueued(cm, Min(ConvQueued(cm)), alive), alive)
    ELSE cm

\* part_002 291-307: Promise.all rejects with the first rejected task, while the
\* other tasks go on, and resolves when every task has resolved; then the
\* completion message is sent inside the try; finally resets isRunning
ConvSettle(cm, alive) ==
    IF ~cm.awaiting
    THEN cm
    ELSE IF \E f \in ConvFiles : cm.task[f] = "rejected"
    THEN [cm EXCEPT !.isRunning = FALSE, !.awaiting = FALSE, !.result = Destroyed]
    ELSE IF ConvQueued(cm) = {} /\ ConvInFlight(cm) = {}
    THEN [cm EXCEPT !.isRunning = FALSE, !.awaiting = FALSE,
                    !.result = IF alive THEN "success" ELSE Destroyed]
    ELSE cm

\* part_002 350-363 and 381-393, 481-496: the converter of file f has ended.
\* With a destroyed window the 'complete' message of a processor throws into the
\* catch of convertFile, whose 'error' message throws out of it; the 'complete'
\* message of a CLI converter throws inside the 'exit' listener
ConvertFileEnd(cm, f, ok, alive) ==
    IF alive
    THEN IF ok
         THEN [cm EXCEPT !.task[f] = "complete", !.completedFiles = @ + 1]
         ELSE [cm EXCEPT !.task[f] = "error", !.errorCount = @ + 1,
                         !.completedFiles = @ + 1]
    ELSE IF ok /\ cm.converterType[f] = "cli"
    THEN [cm EXCEPT !.task[f] = "stuck"]
    ELSE [cm EXCEPT !.task[f] = "rejected", !.errorCount = @ + 1,
                    !.completedFiles = @ + 1]

\* ---- the desktop UploadManager (part_002 91-133) ----
MaxStarts == 2

\* part_002 91-97: an UploadManager as constructed
NewUploadManager ==
    [isRunning |-> FALSE, child |-> "none", result |-> "none", failures |-> 0]

\* part_002 112-132: runUpload settles, the message to the window is sent, the
\* result is returned, finally resets isRunning.  A throwing send turns either
\* outcome into a rejection with the error of the send
EndUpload(um, ok, alive) ==
    [um EXCEPT !.isRunning = FALSE, !.child = "none",
               !.result = IF ~alive THEN Destroyed
                          ELSE IF ok THEN "success"
                          ELSE "Upload exited with code 1",
               !.failures = IF ok /\ alive THEN @ ELSE @ + 1]

\* app.whenReady (index.ts 118-120): createWindow has built the window and both
\* managers
DesktopInit ==
    /\ UploadAtRest /\ ChunkerIdle /\ EmbedderIdle
    /\ SearchIdle /\ UpdaterIdle
    /\ provider = "openai"
    /\ mainWindow = [pc |-> "ready", ref |-> 1, open |-> 1, created |-> 1]
    /\ conversionManager =
          [pc |-> "constructed", ref |-> 1, obj |-> <<NewConversionManager>>,
           reply |-> "none", batches |-> 0]
    /\ uploadManager =
          [pc |-> "constructed", ref |-> 1, obj |-> <<NewUploadManager>>,
           reply |-> "none", starts |-> 0]

\* CONVERT_START (index.ts 66-72) and startConversion(files, options) with n
\* files; converterType[f] is files[f].converterType
StartConversion(n, converterType) ==
    /\ conversionManager.pc = "constructed"
    /\ conversionManager.batches < MaxBatches
    /\ \A f \in ConvFiles : f > n => converterType[f] = NoConverter
    /\ LET w == conversionManager.ref
           alive == Alive(w)
           cm == conversionManager.obj[w]
           set == [cm EXCEPT
                      !.isRunning = TRUE, !.shouldCancel = FALSE,
                      !.totalFiles = n, !.completedFiles = 0, !.errorCount = 0,
                      !.atCancel = NoSnapshot]
       IN \* a request that is refused does not look at its arguments, and one
          \* that throws at 281 has read files.length only: one representative
          /\ (w = NoWindow \/ cm.isRunning) => n = 0
          /\ (w # NoWindow /\ ~alive) =>
                converterType = [f \in ConvFiles |-> NoConverter]
          /\ conversionManager' =
                IF w = NoWindow
                THEN [conversionManager EXCEPT !.reply = "No window",
                                               !.batches = @ + 1]
                ELSE IF cm.isRunning
                THEN [conversionManager EXCEPT
                         !.obj[w].result = "already in progress",
                         !.reply = "none", !.batches = @ + 1]
                ELSE IF ~alive
                \* sendOverallProgress at 281 is outside the try
                THEN [conversionManager EXCEPT
                         !.obj[w] = [set EXCEPT !.result = Destroyed],
                         !.reply = "none", !.batches = @ + 1]
                ELSE [conversionManager EXCEPT
                         !.obj[w] = ConvSettle(ConvDequeue(
                             [set EXCEPT
                                 !.converterType = converterType,
                                 !.task = [f \in ConvFiles |->
                                              IF f <= n THEN "queued" ELSE "none"],
                                 !.awaiting = TRUE, !.result = "none"],
                             alive), alive),
                         !.reply = "none", !.batches = @ + 1]
    /\ UNCHANGED <<uploadVars, chunking, embedding, searching, updating,
                   uploadManager, mainWindow>>

\* the converter of file f of the manager built for window w ends; the pool
\* starts the next tasks and startConversion returns if it can
ConvertReturn(w, f, ok) ==
    /\ conversionManager.pc = "constructed"
    /\ w <= Len(conversionManager.obj)
    /\ conversionManager.obj[w].task[f] = "processing"
    /\ conversionManager' =
          [conversionManager EXCEPT
              !.obj[w] = ConvSettle(ConvDequeue(
                             ConvertFileEnd(@, f, ok, Alive(w)), Alive(w)),
                             Alive(w))]
    /\ UNCHANGED <<uploadVars, chunking, embedding, searching, updating,
                   uploadManager, mainWindow>>

\* CONVERT_CANCEL (index.ts 75-78) and cancel(); without a manager the handler
\* does nothing.  atCancel remembers the tasks at the first cancel of a running
\* batch
Cancel ==
    /\ conversionManager.pc = "constructed"
    /\ conversionManager.ref # NoWindow
    /\ LET cm == conversionManager.obj[conversionManager.ref]
       IN conversionManager' =
             [conversionManager EXCEPT
                 !.obj[conversionManager.ref] =
                     [cm EXCEPT !.shouldCancel = TRUE,
                                !.atCancel = IF cm.isRunning /\ @ = NoSnapshot
                                             THEN cm.task ELSE @]]
    /\ UNCHANGED <<uploadVars, chunking, embedding, searching, updating,
                   uploadManager, mainWindow>>

\* the window is closed: it is destroyed and its 'closed' callback (index.ts
\* 51-55) clears mainWindow and both managers before any other event is handled
WindowClosed ==
    /\ mainWindow.pc = "ready"
    /\ mainWindow.open # NoWindow
    /\ mainWindow' = [mainWindow EXCEPT !.ref = NoWindow, !.open = NoWindow]
    /\ conversionManager' = [conversionManager EXCEPT !.ref = NoWindow]
    /\ uploadManager' = [uploadManager EXCEPT !.ref = NoWindow]
    /\ UNCHANGED <<uploadVars, chunking, embedding, searching, updating>>

\* the steps of a batch and of its window that take no argument from the renderer
ConvSteps ==
    \/ \E w \in 1..MaxWindows, f \in ConvFiles, ok \in BOOLEAN : ConvertReturn(w, f, ok)
    \/ Cancel
    \/ WindowClosed

ConvNext ==
    \/ \E n \in 0..NumConvFiles, converterType \in [ConvFiles -> ConverterTypes] :
          StartConversion(n, converterType)
    \/ ConvSteps

ConvSpec == DesktopInit /\ [][ConvNext]_vars

\* ---- both managers of a window, and the next window ----
\* the longest batch started while uploads and a second window are followed too
MaxMgrFiles == 1

\* UPLOAD_START (index.ts 81-84) and startUpload(options); spawned tells whether
\* spawn('npx', ...) started a child.  With a destroyed window the first log
\* message of runUpload throws before the spawn
StartUpload(spawned) ==
    /\ uploadManager.pc = "constructed"
    /\ uploadManager.starts < MaxStarts
    /\ LET w == uploadManager.ref
           um == uploadManager.obj[w]
       IN /\ (w = NoWindow \/ um.isRunning \/ ~Alive(w)) => spawned
          /\ uploadManager' =
                IF w = NoWindow
                THEN [uploadManager EXCEPT !.reply = "No window", !.starts = @ + 1]
                ELSE IF um.isRunning
                THEN [uploadManager EXCEPT
                         !.obj[w].result = "Upload already in progress",
                         !.reply = "none", !.starts = @ + 1]
                ELSE IF spawned /\ Alive(w)
                THEN [uploadManager EXCEPT
                         !.obj[w] = [um EXCEPT !.isRunning = TRUE,
                                               !.child = "running",
                                               !.result = "none"],
                         !.reply = "none", !.starts = @ + 1]
                ELSE [uploadManager EXCEPT
                         !.obj[w] = EndUpload([um EXCEPT !.isRunning = TRUE],
                                              FALSE, Alive(w)),
                         !.reply = "none", !.starts = @ + 1]
    /\ UNCHANGED <<uploadVars, conversionManager, chunking, embedding, searching,
                   updating, mainWindow>>

\* the child of the manager built for window w exits (code 0 or not) or emits
\* 'error'.  With a destroyed window the log message of a clean exit throws
\* inside the 'exit' listener (part_002 198-201): runUpload never settles
UploadExit(w, ok) ==
    /\ uploadManager.pc = "constructed"
    /\ w <= Len(uploadManager.obj)
    /\ uploadManager.obj[w].child = "running"
    /\ uploadManager' =
          [uploadManager EXCEPT
              !.obj[w] = IF ok /\ ~Alive(w)
                         THEN [@ EXCEPT !.child = "none"]
                         ELSE EndUpload(@, ok, Alive(w))]
    /\ UNCHANGED <<uploadVars, conversionManager, chunking, embedding, searching,
                   updating, mainWindow>>

\* 'activate' with no window left (index.ts 122-126): createWindow builds a new
\* window and new managers; the old ones keep their work
Activate ==
    /\ mainWindow.pc = "ready"
    /\ mainWindow.open = NoWindow
    /\ mainWindow.created < MaxWindows
    /\ LET w == mainWindow.created + 1
       IN /\ mainWindow' = [mainWindow EXCEPT !.ref = w, !.open = w, !.created = w]
          /\ conversionManager' =
                [conversionManager EXCEPT
                    !.ref = w, !.obj = Append(@, NewConversionManager)]
          /\ uploadManager' =
                [uploadManager EXCEPT !.ref = w, !.obj = Append(@, NewUploadManager)]
    /\ UNCHANGED <<uploadVars, chunking, embedding, searching, updating>>

MgrNext ==
    \/ \E n \in 0..MaxMgrFiles, converterType \in [ConvFiles -> ConverterTypes] :
          StartConversion(n, converterType)
    \/ ConvSteps
    \/ \E spawned \in BOOLEAN : StartUpload(spawned)
    \/ \E w \in 1..MaxWindows, ok \in BOOLEAN : UploadExit(w, ok)
    \/ Activate

MgrSpec == DesktopInit /\ [][MgrNext]_vars

\* ---- updateDocument (src/db/client.ts 306-351) on the documents table ----
NumDocs == 2
NumCallers == 2
DocIds == 1..NumDocs
Titles == {"old title", "new title"}
Callers == 1..NumCallers
\* a tags array, as its JSON text
TagLists == {"[]", "[\"x\"]"}
Undefined == "undefined"
Absent == "absent"
MetadataKeys == {"tags", "source_hash"}
NoRow == [exists |-> FALSE]

\* the metadata column: SQL null or a JSON object, given by the value of each key
NullMetadata == [null |-> TRUE, key |-> [k \in MetadataKeys |-> Absent]]
Metadatas ==
    {NullMetadata} \cup
    {[null |-> FALSE, key |-> [k \in MetadataKeys |-> IF k = "tags" THEN t ELSE h]] :
        t \in TagLists \cup {Absent}, h \in {Absent, "sha256:1"}}

Rows ==
    {NoRow} \cup [exists : {TRUE}, title : Titles, raw_content : {"body"},
                  metadata : Metadatas]

\* variant: the metadata column is replaced by the tags alone
MergeTags_dropsOtherKeys(metadata, tags) ==
    [null |-> FALSE, key |-> [k \in MetadataKeys |-> IF k = "tags" THEN tags ELSE Absent]]

\* { ...(existing.metadata), tags: input.tags }; spreading null gives no key
MergeTags(metadata, tags) ==
    [null |-> FALSE,
     key |-> [k \in MetadataKeys |->
                 IF k = "tags" THEN tags
                 ELSE IF metadata.null THEN Absent ELSE metadata.key[k]]]

\* client.ts 319-331: the columns of the UPDATE statement
Updates(existing, input) ==
    [column \in {c \in {"title", "metadata"} :
                    IF c = "title" THEN input.title # Undefined
                    ELSE input.tags # Undefined} |->
        IF column = "title" THEN input.title
        ELSE MergeTags(existing.metadata, input.tags)]

\* Object.keys(updates).length === 0
NoUpdates(u) == DOMAIN u = {}

\* update documents set ... where id = ...
ApplyUpdate(row, u) ==
    [row EXCEPT !.title = IF "title" \in DOMAIN u THEN u["title"] ELSE @,
                !.metadata = IF "metadata" \in DOMAIN u THEN u["metadata"] ELSE @]

IdleCall == [pc |-> "idle"]

UpdateInit ==
    /\ UploadAtRest /\ ChunkerIdle /\ EmbedderIdle
    /\ SearchIdle /\ DesktopIdle
    /\ provider = "openai"
    /\ \E rows \in [DocIds -> Rows] :
          updating = [pc |-> "ready", rows |-> rows, initial |-> rows,
                      call |-> [c \in Callers |-> IdleCall]]

\* updateDocument(id, input) up to `await getDocument(id)`
UpdateCall(c, id, input) ==
    /\ updating.pc = "ready"
    /\ updating.call[c] = IdleCall
    /\ updating' = [updating EXCEPT
                       !.call[c] = [pc |-> "getDocument", id |-> id, input |-> input,
                                    updates |-> <<>>,
                                    wrote |-> FALSE, error |-> "none"]]
    /\ UNCHANGED <<uploadVars, conversionManager, chunking, embedding, searching,
                   uploadManager, mainWindow>>

\* getDocument settles: the SELECT answers an error other than PGRST116
\* (DatabaseError), or no row (PGRST116: NotFoundError), or the updates are built
\* and either the existing row is returned or the UPDATE is sent
UpdateRead(c, answered) ==
    /\ updating.pc = "ready"
    /\ updating.call[c].pc = "getDocument"
    /\ LET call == updating.call[c]
           existing == updating.rows[call.id]
           u == Updates(existing, call.input)
       IN updating' =
             IF ~answered
             THEN [updating EXCEPT !.call[c].pc = "failed",
                                   !.call[c].error = "DatabaseError"]
             ELSE IF ~existing.exists
             THEN [updating EXCEPT !.call[c].pc = "failed",
                                   !.call[c].error = "NotFoundError"]
             ELSE IF NoUpdates(u)
             THEN [updating EXCEPT !.call[c].pc = "returned"]
             ELSE [updating EXCEPT !.call[c].pc = "update", !.call[c].updates = u]
    /\ UNCHANGED <<uploadVars, conversionManager, chunking, embedding, searching,
                   uploadManager, mainWindow>>

\* the UPDATE settles: applied, or DatabaseError
UpdateWrite(c, ok) ==
    /\ updating.pc = "ready"
    /\ updating.call[c].pc = "update"
    /\ LET call == updating.call[c]
       IN updating' =
             IF ok
             THEN [updating EXCEPT
                      !.rows[call.id] = ApplyUpdate(@, call.updates),
                      !.call[c].pc = "returned", !.call[c].wrote = TRUE]
             ELSE [updating EXCEPT !.call[c].pc = "failed",
                                   !.call[c].error = "DatabaseError"]
    /\ UNCHANGED <<uploadVars, conversionManager, chunking, embedding, searching,
                   uploadManager, mainWindow>>

UpdateNext ==
    \/ \E c \in Callers, id \in DocIds, title \in Titles \cup {Undefined},
          tags \in TagLists \cup {Undefined} :
          UpdateCall(c, id, [title |-> title, tags |-> tags])
    \/ \E c \in Callers, answered \in BOOLEAN : UpdateRead(c, answered)
    \/ \E c \in Callers, ok \in BOOLEAN : UpdateWrite(c, ok)

UpdateSpec == UpdateInit /\ [][UpdateNext]_vars

\* ---- hybrid_search (part_009 51-110) and search_knowledge (tools/search.ts) ----
\* The store holds NumSegs chunks: chunks 1 and 2 are chunk 0 and 1 of document 1,
\* every later chunk s is chunk 0 of document s - 1.  Scores are exact fractions.
NumSegs == 3
MaxLimit == 2
MaxRelevance == 2
MaxWeight == 2
MaxQueries == 2
RRF_K == 60
Segs == 1..NumSegs
documentOf(s) == IF s <= 2 THEN 1 ELSE s - 1
chunkIndexOf(s) == IF s = 2 THEN 1 ELSE 0
SearchDocs == {documentOf(s) : s \in Segs}
\* source_type and metadata.tags of the documents
sourceTypeOf(d) == IF d % 2 = 1 THEN "note" ELSE "file"
tagsOf(d) == IF d = 1 THEN {"x", "y"} ELSE IF d = 2 THEN {"x"} ELSE {}

\* chunks.embedding is nullable (part_009 33)
NullEmbedding == 0

Frac(n, d) == [num |-> n, den |-> d]
FracAdd(a, b) == Frac(a.num * b.den + b.num * a.den, a.den * b.den)
FracLeq(a, b) == a.num * b.den <= b.num * a.den
FracEq(a, b) == a.num * b.den = b.num * a.den

\* the sequences that list every element of S once
Orders(S) ==
    {q \in [1..Cardinality(S) -> S] : \A i, j \in 1..Cardinality(S) : q[i] = q[j] => i = j}

Prefix(q, n) == SubSeq(q, 1, Min({n, Len(q)}))

\* row_number() over (order by ts_rank_cd(d.fts, query) desc) on the chunks whose
\* document matches: any order that agrees with the relevance of the documents
LexRankings(lex) ==
    {q \in Orders({s \in Segs : lex[documentOf(s)] > 0}) :
        \A i, j \in 1..Len(q) : i < j => lex[documentOf(q[i])] >= lex[documentOf(q[j])]}

\* row_number() over (order by embedding <=> query_embedding) on the chunks whose
\* embedding is not null: any order that agrees with the distances
SemRankings(dist) ==
    {q \in Orders({s \in Segs : dist[s] # NullEmbedding}) :
        \A i, j \in 1..Len(q) : i < j => dist[q[i]] <= dist[q[j]]}

\* the rows of a ranking CTE: the chunks in kept, each with its row_number() in
\* the window order q
RankedRows(q, kept) ==
    [s \in kept |-> CHOOSE i \in 1..Len(q) : q[i] = s]

\* full_text (part_009 70-80): `limit match_count * 2` follows the window without
\* an ORDER BY, so the rows that stay are any n of the numbered rows
FullTextRows(q, n) ==
    {RankedRows(q, kept) :
        kept \in {k \in SUBSET {q[i] : i \in 1..Len(q)} :
                     Cardinality(k) = Min({n, Len(q)})}}

\* rank_ix of chunk s in the rows of a CTE, 0 when it has no row there
RankIx(rows, s) ==
    IF s \in DOMAIN rows THEN rows[s] ELSE 0

\* coalesce(1.0 / (rrf_k + rank_ix), 0.0) * weight
RrfTerm(rank, weight) ==
    IF rank = 0 THEN Frac(0, 1) ELSE Frac(weight, RRF_K + rank)

\* part_009 100-103
RrfScore(fullText, semantic, s, fullTextWeight, semanticWeight) ==
    FracAdd(RrfTerm(RankIx(fullText, s), fullTextWeight),
            RrfTerm(RankIx(semantic, s), semanticWeight))

\* full_text ft full outer join semantic s
Candidates(fullText, semantic) ==
    DOMAIN fullText \cup DOMAIN semantic

\* order by score desc: any order of the candidates that agrees with the scores
ScoreOrders(fullText, semantic, fullTextWeight, semanticWeight) ==
    {q \in Orders(Candidates(fullText, semantic)) :
        \A i, j \in 1..Len(q) : i < j =>
            FracLeq(RrfScore(fullText, semantic, q[j], fullTextWeight, semanticWeight),
                    RrfScore(fullText, semantic, q[i], fullTextWeight, semanticWeight))}

\* the rows hybrid_search returns for the rankings and the final order chosen
hybridSearch(fullText, semantic, order, matchCount, fullTextWeight, semanticWeight) ==
    [i \in 1..Min({matchCount, Len(order)}) |->
        [chunk_id |-> order[i],
         document_id |-> documentOf(order[i]),
         source_type |-> sourceTypeOf(documentOf(order[i])),
         tags |-> tagsOf(documentOf(order[i])),
         score |-> RrfScore(fullText, semantic, order[i], fullTextWeight,
                            semanticWeight)]]

NoTags == [defined |-> FALSE, tags |-> {}]
NoMinScore == [defined |-> FALSE, value |-> Frac(0, 1)]

\* tools/search.ts 105: (tags || sourceType || minScore) ? limit * 3 : limit, with
\* the truthiness of JavaScript: an array is truthy, 0 is not
FetchLimit(limit, tags, sourceType, minScore) ==
    IF tags.defined \/ sourceType # Undefined
       \/ (minScore.defined /\ minScore.value.num # 0)
    THEN limit * 3 ELSE limit

\* tools/search.ts 117-133
PostFilter(rows, limit, tags, sourceType, minScore) ==
    LET KeepType(r) == sourceType = Undefined \/ r.source_type = sourceType
        KeepTags(r) == ~(tags.defined /\ tags.tags # {}) \/ tags.tags \subseteq r.tags
        KeepScore(r) == ~minScore.defined \/ FracLeq(minScore.value, r.score)
    IN Prefix(SelectSeq(SelectSeq(SelectSeq(rows, KeepType), KeepTags), KeepScore), limit)

NoQuery == [limit |-> 0]

\* a store: the relevance of every document for the query text (0: no match) and
\* the distance of every chunk to the query embedding, NullEmbedding for a chunk
\* stored without one; chunks may be equally near, and the distances that occur
\* are numbered 1, 2, ... without a gap
SearchStores ==
    [lex : [SearchDocs -> 0..MaxRelevance],
     dist : {d \in [Segs -> {NullEmbedding} \cup (1..NumSegs)] :
                \A s \in Segs : d[s] > 1 => \E t \in Segs : d[t] = d[s] - 1}]

\* search_knowledge(query, limit, fullTextWeight, semanticWeight, tags, sourceType,
\* minScore) from the embedding of the query to the slice; lexOrder, semOrder and
\* order are the row orders the database picks among equals, fullText the rows
\* its limit leaves of the lexical ranking
SearchKnowledge(limit, fullTextWeight, semanticWeight, tags, sourceType, minScore) ==
    /\ searching.pc = "ready"
    /\ searching.queries < MaxQueries
    /\ \E lexOrder \in LexRankings(searching.store.lex),
          semOrder \in SemRankings(searching.store.dist) :
       LET fetchLimit == FetchLimit(limit, tags, sourceType, minScore)
           \* semantic (part_009 81-91) is ordered by distance before its limit
           semantic == RankedRows(semOrder, {semOrder[i] :
                           i \in 1..Min({fetchLimit * 2, Len(semOrder)})})
       IN \E fullText \in FullTextRows(lexOrder, fetchLimit * 2) :
          \E order \in ScoreOrders(fullText, semantic, fullTextWeight, semanticWeight) :
          LET rows == hybridSearch(fullText, semantic, order, fetchLimit,
                                   fullTextWeight, semanticWeight)
          IN searching' =
                [searching EXCEPT
                    !.queries = @ + 1,
                    !.previous = searching.last,
                    !.last = [limit |-> limit, fullTextWeight |-> fullTextWeight,
                              semanticWeight |-> semanticWeight, tags |-> tags,
                              sourceType |-> sourceType, minScore |-> minScore,
                              fetchLimit |-> fetchLimit, fullText |-> fullText,
                              semantic |-> semantic, engine |-> rows,
                              results |-> PostFilter(rows, limit, tags, sourceType,
                                                     minScore)]]
    /\ UNCHANGED <<uploadVars, conversionManager, chunking, embedding, updating,
                   uploadManager, mainWindow>>

SearchInit ==
    /\ UploadAtRest /\ ChunkerIdle /\ EmbedderIdle
    /\ UpdaterIdle /\ DesktopIdle
    /\ provider = "openai"
    /\ \E store \in SearchStores :
          searching = [pc |-> "ready", store |-> store, queries |-> 0,
                       last |-> NoQuery, previous |-> NoQuery]

\* queries without post-filter; a second query repeats the first one with the
\* same or a larger semanticWeight
SearchNext ==
    \E limit \in 1..MaxLimit, fullTextWeight \in 0..1,
       semanticWeight \in 0..MaxWeight :
        /\ searching.last # NoQuery =>
              /\ limit = searching.last.limit
              /\ fullTextWeight = searching.last.fullTextWeight
              /\ semanticWeight >= searching.last.semanticWeight
        /\ SearchKnowledge(limit, fullTextWeight, semanticWeight, NoTags, Undefined,
                           NoMinScore)

SearchSpec == SearchInit /\ [][SearchNext]_vars

\* the post-filters of search_knowledge
TagFilters == {NoTags} \cup {[defined |-> TRUE, tags |-> t] : t \in {{}, {"x"}, {"x", "y"}}}
SourceTypeFilters == {Undefined, "note", "file"}
MinScoreFilters ==
    {NoMinScore} \cup {[defined |-> TRUE, value |-> v] :
                          v \in {Frac(0, 1), Frac(1, RRF_K + 1)}}

FilterNext ==
    \E limit \in 1..MaxLimit, semanticWeight \in 0..1, tags \in TagFilters,
       sourceType \in SourceTypeFilters, minScore \in MinScoreFilters :
        /\ searching.last = NoQuery
        /\ SearchKnowledge(limit, 1, semanticWeight, tags, sourceType, minScore)

FilterSpec == SearchInit /\ [][FilterNext]_vars

\* ---- the embedder: generateEmbedding(s) (src/services/embeddings.ts) ----
\* Short lists are taken with every content; of the lists that fill a request or
\* need a second one, one list per length is taken: a full batch and up to
\* MaxOver texts more.
MaxTexts == 3
NumTextKinds == 2
MaxOver == 1
OPENAI_MAX_BATCH_SIZE == 2048
OLLAMA_MAX_BATCH_SIZE == 100
TextIds == 1..NumTextKinds
LongTexts(n) == [i \in 1..n |-> ((i - 1) % NumTextKinds) + 1]
TextLists ==
    UNION {[1..n -> TextIds] : n \in 0..MaxTexts}
    \cup {LongTexts(size + over) :
             size \in {OPENAI_MAX_BATCH_SIZE, OLLAMA_MAX_BATCH_SIZE}, over \in 0..MaxOver}

\* the vector a deterministic provider computes for a text
Embed(t) == <<t, t + t>>

\* the items of a provider response for one request, in input order
ProviderData(batch) ==
    [i \in 1..Len(batch) |-> [index |-> i - 1, embedding |-> Embed(batch[i])]]

\* the response as it arrives: item i of the arrival is item order[i]
Arrival(data, order) == [i \in 1..Len(data) |-> data[order[i]]] \o <<>>

\* variant: the response is used in arrival order
SortByIndex_asReceived(data) ==
    data

\* response.data.sort((a, b) => a.index - b.index): Array.prototype.sort is
\* stable, items with equal index keep their order.  place[j] is where item j
\* goes (appending the empty sequence makes it a sequence computed once)
SortByIndex(data) ==
    LET n == Len(data)
        place == [j \in 1..n |->
                    1 + Cardinality({k \in 1..n :
                            \/ data[k].index < data[j].index
                            \/ data[k].index = data[j].index /\ k < j})] \o <<>>
    IN [p \in 1..n |-> data[CHOOSE j \in 1..n : place[j] = p]]

\* for (i = 0; i < texts.length; i += size) batches.push(texts.slice(i, i + size))
RECURSIVE Batches(_, _)
Batches(texts, size) ==
    IF texts = <<>> THEN <<>>
    ELSE <<SubSeq(texts, 1, Min({size, Len(texts)}))>>
             \o Batches(SubSeq(texts, size + 1, Len(texts)), size)

MaxBatchSize(p) ==
    IF p = "ollama" THEN OLLAMA_MAX_BATCH_SIZE ELSE OPENAI_MAX_BATCH_SIZE

\* isEmbeddingsConfigured
isEmbeddingsConfigured(p, apiKey) == IF p = "ollama" THEN TRUE ELSE apiKey

\* what one provider response contributes to the result
Embeddings(p, data) ==
    IF p = "ollama" THEN [i \in 1..Len(data) |-> data[i].embedding]
    ELSE LET sortedData == SortByIndex(data)
         IN [i \in 1..Len(data) |-> sortedData[i].embedding]

\* generateEmbedding(text) with a provider that answers: response.data[0].embedding
\* or data.embeddings[0]
embedOne(t) == ProviderData(<<t>>)[1].embedding

EmbedInit ==
    /\ UploadAtRest /\ ChunkerIdle
    /\ SearchIdle /\ UpdaterIdle /\ DesktopIdle
    /\ provider \in Providers
    /\ \E mode \in {"one", "many"}, texts \in TextLists, apiKey \in BOOLEAN :
          /\ mode = "one" => Len(texts) = 1
          /\ embedding = [pc |-> "called", mode |-> mode, texts |-> texts,
                          apiKey |-> apiKey, batches |-> <<>>, next |-> 0,
                          allEmbeddings |-> <<>>, requests |-> 0,
                          reordered |-> FALSE, error |-> "none", result |-> <<>>]

\* the synchronous part of generateEmbedding(text) / generateEmbeddings(texts):
\* the empty list returns at once, getOpenAIClient throws without a key,
\* otherwise the first request is sent
EmbedCall ==
    /\ embedding.pc = "called"
    /\ embedding' =
          IF embedding.mode = "many" /\ embedding.texts = <<>>
          THEN [embedding EXCEPT !.pc = "returned", !.result = <<>>]
          ELSE IF provider = "openai" /\ ~embedding.apiKey
          THEN [embedding EXCEPT !.pc = "failed", !.error = "ExternalServiceError"]
          ELSE [embedding EXCEPT
                   !.pc = "awaiting",
                   !.batches = IF embedding.mode = "one" THEN <<embedding.texts>>
                               ELSE Batches(embedding.texts, MaxBatchSize(provider)),
                   !.next = 1, !.requests = 1]
    /\ UNCHANGED <<uploadVars, conversionManager, chunking, searching, updating,
                   uploadManager, mainWindow>>

\* the orders a response of n items is taken to arrive in: every order of a short
\* response; of a long one the order sent, the reverse, and the first item last
ArrivalOrders(n) ==
    IF n <= MaxTexts THEN Permutations(1..n)
    ELSE {[i \in 1..n |-> i], [i \in 1..n |-> n + 1 - i], [i \in 1..n |-> (i % n) + 1]}

\* the response to the pending request arrives; OpenAI items carry their index and
\* may arrive in any order, the Ollama array is positional
EmbedBatchResponse(order) ==
    /\ embedding.pc = "awaiting"
    /\ LET batch == embedding.batches[embedding.next]
           inOrder == [i \in 1..Len(batch) |-> i]
           data == Arrival(ProviderData(batch), order)
           all == embedding.allEmbeddings \o Embeddings(provider, data)
       IN /\ provider = "ollama" => order = inOrder
          /\ embedding' =
                IF embedding.mode = "one"
                THEN [embedding EXCEPT !.pc = "returned", !.result = data[1].embedding]
                ELSE IF embedding.next < Len(embedding.batches)
                THEN [embedding EXCEPT !.allEmbeddings = all, !.next = @ + 1,
                                       !.requests = @ + 1,
                                       !.reordered = @ \/ order # inOrder]
                ELSE [embedding EXCEPT !.allEmbeddings = all, !.pc = "returned",
                                       !.result = all,
                                       !.reordered = @ \/ order # inOrder]
    /\ UNCHANGED <<uploadVars, conversionManager, chunking, searching, updating,
                   uploadManager, mainWindow>>

\* the pending request fails: the catch block wraps it
EmbedBatchError ==
    /\ embedding.pc = "awaiting"
    /\ embedding' = [embedding EXCEPT !.pc = "failed", !.error = "ExternalServiceError"]
    /\ UNCHANGED <<uploadVars, conversionManager, chunking, searching, updating,
                   uploadManager, mainWindow>>

EmbedNext ==
    \/ EmbedCall
    \/ \E order \in ArrivalOrders(IF embedding.pc = "awaiting"
                                    THEN Len(embedding.batches[embedding.next])
                                    ELSE 0) :
          EmbedBatchResponse(order)
    \/ EmbedBatchError

EmbedSpec == EmbedInit /\ [][EmbedNext]_vars

\* ---- properties of the segmenter ----
Returned == chunking.pc = "returned"
MaxChars == chunking.maxChunkSize * CHARS_PER_TOKEN
OverlapChars == chunking.overlap * CHARS_PER_TOKEN
NormalizedText == Normalize(chunking.text)
Paragraphs == Split(NormalizedText, chunking.separator)
RangeLen(c) == c.endOffset - c.startOffset

\* offset of paragraphs[k] in the normalized text, and of the end of what the loop
\* appends for it (the paragraph with its separator, the last one without)
RECURSIVE ParagraphStart(_)
ParagraphStart(k) ==
    IF k = 1 THEN 0
    ELSE ParagraphStart(k - 1) + Len(Paragraphs[k - 1]) + Len(chunking.separator)
ParagraphEnd(k) ==
    ParagraphStart(k) + Len(Paragraphs[k])
        + (IF k = Len(Paragraphs) THEN 0 ELSE Len(chunking.separator))

\* a whitespace-only candidate chunk was dropped and left a gap between two
\* returned chunks
CandidateDropped ==
    \E i \in 1..(Len(chunking.result) - 1) :
        chunking.result[i + 1].startOffset > chunking.result[i].endOffset

\* C12: for a non-empty normalized text, maxTokens >= 1 and the default separator,
\* the ranges of the returned segments cover the normalized text without a gap:
\* the first starts at 0, each later one starts at or before the previous end, and
\* the last ends at the length of the normalized text.
C12_CoverageNoGap ==
    (Returned /\ chunking.maxChunkSize >= 1 /\ Len(NormalizedText) > 0
        /\ chunking.separator = DefaultSeparator) =>
        LET r == chunking.result
        IN /\ Len(r) >= 1
           /\ r[1].startOffset = 0
           /\ \A i \in 1..(Len(r) - 1) : r[i + 1].startOffset <= r[i].endOffset
           /\ r[Len(r)].endOffset = Len(NormalizedText)

\* C13: segment i+1 starts at segment i's endOffset minus
\* min(overlapTokens*4, length of segment i's range).
C13_OverlapIsTail ==
    (Returned /\ chunking.maxChunkSize >= 1 /\ chunking.separator = DefaultSeparator) =>
        LET r == chunking.result
        IN \A i \in 1..(Len(r) - 1) :
              r[i + 1].startOffset =
                  r[i].endOffset - Min({OverlapChars, RangeLen(r[i])})

\* the statement of C14 as the specification words it: a range longer than
\* maxTokens*4 contains a paragraph that is itself longer than maxTokens*4
C14_BudgetUnlessLongParagraph ==
    (Returned /\ chunking.maxChunkSize >= 1 /\ chunking.separator = DefaultSeparator) =>
        \A i \in 1..Len(chunking.result) :
            LET c == chunking.result[i]
            IN \/ RangeLen(c) <= MaxChars
               \/ \E k \in 1..Len(Paragraphs) :
                     /\ Len(Paragraphs[k]) > MaxChars
                     /\ c.startOffset <= ParagraphStart(k)
                     /\ ParagraphStart(k) + Len(Paragraphs[k]) <= c.endOffset

\* C14: every segment's range is at most maxTokens*4 characters long, except a
\* segment made of at most overlapTokens*4 characters of overlap followed by one
\* single paragraph with its separator.
C14_BudgetUnlessSeedAndOneParagraph ==
    Returned =>
        \A i \in 1..Len(chunking.result) :
            LET c == chunking.result[i]
            IN \/ RangeLen(c) <= MaxChars
               \/ \E k \in 1..Len(Paragraphs) :
                     /\ c.startOffset <= ParagraphStart(k)
                     /\ ParagraphStart(k) - c.startOffset <= OverlapChars
                     /\ c.endOffset = ParagraphEnd(k)

C14_Witness ==
    /\ Returned /\ chunking.maxChunkSize >= 1 /\ chunking.separator = DefaultSeparator
    /\ \E i \in 1..Len(chunking.result) :
          /\ RangeLen(chunking.result[i]) > MaxChars
          /\ \A k \in 1..Len(Paragraphs) : Len(Paragraphs[k]) <= MaxChars

\* C15: for every text, maxTokens, overlapTokens and separator, the endOffsets of
\* successive segments are strictly increasing, so no two segments have the same
\* range.
C15_NoDuplicateRange ==
    (Returned /\ chunking.maxChunkSize >= 1) =>
        \A i \in 1..(Len(chunking.result) - 1) :
            chunking.result[i].endOffset < chunking.result[i + 1].endOffset

\* C16: the returned segments have index equal to their position (from 0, without
\* a gap, also when a whitespace-only candidate is dropped) and startOffset <
\* endOffset.
C16_IndexIsPosition ==
    Returned =>
        \A i \in 1..Len(chunking.result) :
            /\ chunking.result[i].index = i - 1
            /\ chunking.result[i].startOffset < chunking.result[i].endOffset

C16_Witness ==
    /\ Returned /\ Len(chunking.result) >= 3 /\ CandidateDropped
    /\ chunking.separator = DefaultSeparator

\* C17: segmenting with maxTokens <= 0 fails with InvalidArgument and returns no
\* segment.
C17_NonPositiveBudgetRejected ==
    (Returned /\ chunking.maxChunkSize <= 0) =>
        (chunking.error = "InvalidArgument" /\ chunking.result = <<>>)

\* C11: after cancel() of a running batch, a file whose task had not started is
\* never started, a file in conversion ends as it does without a cancel (with the
\* converter's own outcome while the window lives), and the outcome of a file that
\* had ended is unchanged.
C11_CancelStopsNewWork ==
    conversionManager.pc = "constructed" =>
        \A w \in 1..Len(conversionManager.obj) :
            LET cm == conversionManager.obj[w]
            IN cm.atCancel # NoSnapshot =>
                  \A f \in ConvFiles :
                      LET before == cm.atCancel[f]
                          now == cm.task[f]
                      IN /\ before = "queued" => now \in {"queued", "cancelled"}
                         /\ before = "processing" =>
                               now \in {"processing", "complete", "error"} \cup
                                   (IF Alive(w) THEN {} ELSE {"rejected", "stuck"})
                         /\ before \notin {"queued", "processing"} => now = before

C11_Witness ==
    /\ conversionManager.pc = "constructed"
    /\ LET cm == conversionManager.obj[1]
       IN /\ ~cm.isRunning
          /\ cm.result = "success"
          /\ \E f, g, h \in ConvFiles :
                /\ cm.atCancel[f] = "queued"
                /\ cm.task[f] = "cancelled"
                /\ cm.atCancel[g] = "processing"
                /\ cm.task[g] = "complete"
                /\ cm.atCancel[h] = "processing"
                /\ cm.task[h] = "error"

\* C18: generateEmbeddings(texts) returns one vector per input text, output[i]
\* being the embedding of texts[i], for every input length (several requests of at
\* most the batch size included) and also when a batch response arrives reordered.
C18_OrderPreserved ==
    (embedding.pc = "returned" /\ embedding.mode = "many") =>
        /\ Len(embedding.result) = Len(embedding.texts)
        /\ \A i \in 1..Len(embedding.texts) :
              embedding.result[i] = embedOne(embedding.texts[i])

C18_Witness ==
    /\ embedding.pc = "returned" /\ embedding.mode = "many"
    /\ provider = "openai"
    /\ Len(embedding.texts) > OPENAI_MAX_BATCH_SIZE
    /\ embedding.reordered
    /\ embedding.texts[1] # embedding.texts[2]

\* C19: when the provider's credentials or endpoint are absent, every
\* generateEmbedding and generateEmbeddings call (the empty list included) fails
\* with NotConfigured, which is not ExternalServiceError, and sends no request.
C19_NotConfiguredError ==
    (embedding.pc \in {"returned", "failed"}
        /\ ~isEmbeddingsConfigured(provider, embedding.apiKey)) =>
        /\ embedding.pc = "failed"
        /\ embedding.error = "NotConfigured"
        /\ embedding.requests = 0

\* C27: when a step of ingesting an artifact fails, no Document and no Segment of
\* the Failed artifact remains in the store.
C27_FailedLeavesNothing ==
    \A f \in Failed :
        /\ NewDocumentId(run, f) \notin DocumentIds
        /\ ChunksOf(NewDocumentId(run, f)) = {}

\* C28: every segment's content is the trimmed substring of the normalized text
\* between its startOffset and endOffset, and 0 <= startOffset < endOffset <=
\* length of the normalized text.
C28_ContentIsTrimmedRange ==
    Returned =>
        \A i \in 1..Len(chunking.result) :
            LET c == chunking.result[i]
            IN /\ 0 <= c.startOffset
               /\ c.startOffset < c.endOffset
               /\ c.endOffset <= Len(NormalizedText)
               /\ c.content = Trim(SubSeq(NormalizedText, c.startOffset + 1, c.endOffset))

C28_Witness ==
    /\ Returned /\ Len(chunking.result) >= 2
    /\ chunking.separator = DefaultSeparator /\ chunking.maxChunkSize >= 1
    /\ \E j \in 1..Len(chunking.text) : chunking.text[j] = CR
    /\ Len(chunking.text) > Len(NormalizedText) + 2
    /\ \E i \in 2..Len(chunking.result) :
          /\ chunking.result[i].startOffset > 0
          /\ chunking.result[i].startOffset < chunking.result[i - 1].endOffset
          /\ Len(chunking.result[i].content) < RangeLen(chunking.result[i])

\* C29: after a run in which some artifacts failed, the manifest on disk holds an
\* entry for every artifact the run reported uploaded and none for the failed
\* ones, and the next run without force hands exactly the failed ones to the pool.
C29_ManifestAfterFailures ==
    /\ (phase = "finished" /\ ~options.dryRun /\ Failed # {}) =>
          /\ \A f \in Uploaded : disk[hashOf[f]] # NoEntry
          /\ \A f \in Failed : hashOf[f] # NoHash => disk[hashOf[f]] = NoEntry
    /\ (run >= 2 /\ ~options.force /\ ~prevRun.options.dryRun
        /\ \E f \in Files : prevRun.pc[f] = "failed") =>
          toUpload = {f \in Files : prevRun.pc[f] = "failed"}

\* C30: each manager runs at most one batch at a time.  A start request made while
\* a batch runs returns an 'already in progress' error and leaves totalFiles,
\* completedFiles, errorCount and the cancel flag alone; isRunning is true only
\* while a start call is waiting for its batch, so it is false again after every
\* batch, completed or thrown.
C30_RunningOnlyDuringBatch ==
    /\ conversionManager.pc = "constructed" =>
          \A w \in 1..Len(conversionManager.obj) :
              conversionManager.obj[w].isRunning => conversionManager.obj[w].awaiting
    /\ uploadManager.pc = "constructed" =>
          \A w \in 1..Len(uploadManager.obj) :
              uploadManager.obj[w].isRunning => uploadManager.obj[w].child = "running"

C30_StartWhileRunningRefused ==
    /\ \A w \in 1..Len(conversionManager.obj) :
          (/\ conversionManager.ref = w
           /\ conversionManager.obj[w].isRunning
           /\ conversionManager'.batches # conversionManager.batches) =>
              conversionManager'.obj =
                  [conversionManager.obj EXCEPT ![w].result = "already in progress"]
    /\ \A w \in 1..Len(uploadManager.obj) :
          (/\ uploadManager.ref = w
           /\ uploadManager.obj[w].isRunning
           /\ uploadManager'.starts # uploadManager.starts) =>
              uploadManager'.obj =
                  [uploadManager.obj EXCEPT ![w].result = "Upload already in progress"]

C30_OneBatchAtATime ==
    [](C30_RunningOnlyDuringBatch) /\ [][C30_StartWhileRunningRefused]_vars

\* C26: updateDocument changes only the title and the tags key of metadata:
\* raw_content and every other metadata key of every Document are the same after
\* each step as before, a given title or tags value is what the write stores, and
\* a call with neither title nor tags performs no write.
OtherKeys(row) ==
    [k \in MetadataKeys \ {"tags"} |-> row.metadata.key[k]]

C26_FrameOfStep ==
    \A d \in DocIds :
        /\ updating'.rows[d].exists = updating.rows[d].exists
        /\ updating.rows[d].exists =>
              /\ updating'.rows[d].raw_content = updating.rows[d].raw_content
              /\ OtherKeys(updating'.rows[d]) = OtherKeys(updating.rows[d])
        /\ \A c \in Callers :
              (updating.call[c].pc = "update" /\ updating'.call[c].wrote
               /\ updating.call[c].id = d) =>
                  /\ updating.call[c].input.title # Undefined =>
                        updating'.rows[d].title = updating.call[c].input.title
                  /\ updating.call[c].input.tags # Undefined =>
                        updating'.rows[d].metadata.key["tags"] = updating.call[c].input.tags

C26_NoWriteWithoutInput ==
    updating.pc = "ready" =>
        \A c \in Callers :
            (updating.call[c].pc # "idle"
             /\ updating.call[c].input.title = Undefined
             /\ updating.call[c].input.tags = Undefined) =>
                /\ updating.call[c].pc \in {"getDocument", "returned", "failed"}
                /\ ~updating.call[c].wrote

C26_UpdateFrame ==
    [](C26_NoWriteWithoutInput) /\ [][updating.pc = "ready" => C26_FrameOfStep]_vars

C26_Witness ==
    /\ updating.pc = "ready"
    /\ \E d \in DocIds :
          /\ updating.initial[d].exists
          /\ updating.initial[d].metadata.key["source_hash"] # Absent
          /\ updating.initial[d].metadata.key["tags"] = "[]"
          /\ updating.rows[d].metadata.key["tags"] = "[\"x\"]"
          /\ updating.rows[d].title # updating.initial[d].title
          /\ \A c \in Callers :
                updating.call[c].pc = "returned" /\ updating.call[c].wrote
                /\ updating.call[c].id = d
          /\ updating.call[1].input.tags = Undefined
          /\ updating.call[2].input.title = Undefined

\* ---- search ----
Elements(q) == {q[i] : i \in 1..Len(q)}
\* the chunks of the rows of a CTE, lowest rank_ix first
ByRank(rows) ==
    CHOOSE q \in Orders(DOMAIN rows) :
        \A i, j \in 1..Len(q) : i < j => rows[q[i]] < rows[q[j]]
ChunkIds(rows) == [i \in 1..Len(rows) |-> rows[i].chunk_id]
Queried == searching.pc = "ready" /\ searching.last # NoQuery
Matching == {s \in Segs : searching.store.lex[documentOf(s)] > 0}
\* q lists the n best elements of pool, best first
IsTop(q, pool, n, AtLeast(_, _)) ==
    /\ Len(q) = Min({n, Cardinality(pool)})
    /\ Elements(q) \subseteq pool
    /\ \A i, j \in 1..Len(q) : i < j => q[i] # q[j] /\ AtLeast(q[i], q[j])
    /\ \A s \in pool \ Elements(q) : \A i \in 1..Len(q) : AtLeast(q[i], s)
\* x is listed before y
Above(rows, x, y) ==
    \E i, j \in 1..Len(rows) : i < j /\ rows[i].chunk_id = x /\ rows[j].chunk_id = y

\* chunk that does not match, each with score w/(60 + its lexical rank).
C22_PureLexicalAtZeroSemantic ==
    (Queried /\ searching.last.semanticWeight = 0) =>
        /\ ChunkIds(searching.last.engine)
              = Prefix(ByRank(searching.last.fullText), searching.last.fetchLimit)
        /\ \A i \in 1..Len(searching.last.engine) :
              /\ searching.last.engine[i].chunk_id \in Matching
              /\ FracEq(searching.last.engine[i].score,
                        Frac(searching.last.fullTextWeight, 60 + i))

\* C23: two chunks with equal fused score are returned in ascending
\* (documentId, index) order, and a repeated query on the unchanged store returns
\* the identical list.
C23_TieBreakAndRepeat ==
    Queried =>
        /\ \A i, j \in 1..Len(searching.last.engine) :
              (i < j /\ FracEq(searching.last.engine[i].score,
                               searching.last.engine[j].score)) =>
                 \/ searching.last.engine[i].document_id
                       < searching.last.engine[j].document_id
                 \/ /\ searching.last.engine[i].document_id
                          = searching.last.engine[j].document_id
                    /\ chunkIndexOf(searching.last.engine[i].chunk_id)
                          < chunkIndexOf(searching.last.engine[j].chunk_id)
        /\ (/\ searching.previous # NoQuery
            /\ searching.previous.semanticWeight = searching.last.semanticWeight) =>
              searching.previous.engine = searching.last.engine

\* C24: for a fixed store, query and fullTextWeight, a chunk that appears only in
\* the semantic ranking and is listed above another chunk for semanticWeight s is
\* not listed below that chunk for a semanticWeight s' > s.
C24_SemanticWeightMonotone ==
    (/\ Queried
     /\ searching.previous # NoQuery
     /\ searching.previous.semanticWeight < searching.last.semanticWeight) =>
        \A x, y \in Segs :
            (/\ RankIx(searching.previous.fullText, x) = 0
             /\ RankIx(searching.last.fullText, x) = 0
             /\ RankIx(searching.previous.semantic, x) > 0
             /\ Above(searching.previous.engine, x, y)) =>
                ~Above(searching.last.engine, y, x)

\* C25: when a tags, sourceType or minScore filter is supplied, the engine is asked
\* for limit*3 rows and the returned list is the first limit of those rows, in
\* engine order, that pass every supplied filter.
C25_FilteredFromTripleFetch ==
    (/\ Queried
     /\ \/ searching.last.tags.defined
        \/ searching.last.sourceType # Undefined
        \/ searching.last.minScore.defined) =>
        LET q == searching.last
            Passes(r) ==
                /\ q.tags.defined => q.tags.tags \subseteq r.tags
                /\ q.sourceType # Undefined => r.source_type = q.sourceType
                /\ q.minScore.defined => FracLeq(q.minScore.value, r.score)
            passing == {i \in 1..Len(q.engine) : Passes(q.engine[i])}
        IN /\ q.fetchLimit = q.limit * 3
           /\ Len(q.results) = Min({q.limit, Cardinality(passing)})
           /\ \A n \in 1..Len(q.results) :
                 \E i \in passing :
                    /\ q.results[n] = q.engine[i]
                    /\ Cardinality({k \in passing : k < i}) = n - 1

====
